---- MODULE Spec2Model ----
(***************************************************************************)
(* Air-quality monitor: IDW interpolation (src/interpolate.py), the        *)
(* PM2.5 -> AQI score and alert (src/app.py, server side and the embedded  *)
(* JavaScript click handler) modelled over IEEE-754 binary64 arithmetic.   *)
(*                                                                         *)
(* Every Python float, numpy float64 and JavaScript Number of the program  *)
(* is a binary64 value.  A value is the record [k, s, m, e]:               *)
(*   k = "num": the finite number (-1)^s * m * 2^e, m a natural number     *)
(*              held as little-endian limbs base 2^15;                     *)
(*   k = "inf": the infinity of sign s;   k = "nan": not-a-number.         *)
(* The operations round to nearest, ties to even, as the hardware does.    *)
(***************************************************************************)
EXTENDS Integers, Sequences, FiniteSets, TLC

(***************************************************************************)
(* The program state.                                                      *)
(***************************************************************************)
VARIABLES
    data,        \* the sample set: a sequence of [lon, lat, value]
    power,       \* the IDW power of the call
    pc,          \* which operation has run
    res,         \* interpolate_idw: grid_resolution
    lonMin, lonMax, latMin, latMax,   \* interpolate_idw: the envelope
    gridLon, gridLat, gridValues,     \* interpolate_idw: the three meshes
    gi, gj,      \* interpolate_idw: the loop indices (from 0)
    gret,        \* interpolate_idw: "pending", "none" (None, None, None), "grid"
    q,           \* the query point [lon, lat]
    est,         \* the value interpolate_idw_point returned
    popup,       \* what the click handler showed
    pm25,        \* the classifier's input
    aqi, alert,  \* the server's score and alert
    jsAqi, jsAlert,  \* the click handler's score and alert
    pm25b, aqiB,     \* a second concentration, not below pm25, and its score
    markerColor,     \* create_map: the color of a station marker of value pm25
    cellColor,       \* create_map: the color of the contour band holding pm25
    m,               \* the map create_map returned to the refresh
    notice,          \* the refresh's message: "error", "warning", "success"
    selected,        \* the region chosen in the selectbox
    ss,              \* st.session_state
    now,             \* time.time()
    shown            \* what the last script run displayed

vars == <<data, power, pc, res, lonMin, lonMax, latMin, latMax, gridLon, gridLat,
          gridValues, gi, gj, gret, q, est, popup, pm25, aqi, alert, jsAqi, jsAlert,
          pm25b, aqiB, markerColor, cellColor, m, notice, selected, ss, now, shown>>

appVars == <<m, notice, selected, ss, now, shown>>

gridVars == <<res, lonMin, lonMax, latMin, latMax, gridLon, gridLat, gridValues,
              gi, gj, gret>>

aqiVars == <<pm25, aqi, alert, jsAqi, jsAlert, pm25b, aqiB, markerColor, cellColor>>

(***************************************************************************)
(* Every operation that is applied in more than one place is evaluated      *)
(* through the one operator Call: the operation F applied to its operands   *)
(* is Call of its name and the tuple of the operands, and FBody is what it  *)
(* computes.  The script applies its functions as Call of their names.      *)
(***************************************************************************)
RECURSIVE Call(_, _)

(***************************************************************************)
(* Natural numbers of arbitrary size: little-endian limbs, no high zero.   *)
(***************************************************************************)
Base == 2^15

\* an array held in memory: the same elements, each evaluated once
Array(f) == f \o <<>>

\* the index of the highest nonzero limb of a, 0 when there is none
NTop(a) ==
    IF \A i \in 1..Len(a) : a[i] = 0 THEN 0
    ELSE CHOOSE i \in 1..Len(a) : a[i] # 0 /\ \A j \in (i + 1)..Len(a) : a[j] = 0

NStrip(a) ==
    IF a = <<>> THEN a
    ELSE IF a[Len(a)] # 0 THEN a ELSE SubSeq(a, 1, NTop(a))

NFromInt(n) ==
    IF n = 0 THEN <<>>
    ELSE IF n < Base THEN <<n>>
    ELSE IF n < Base * Base THEN <<n % Base, n \div Base>>
    ELSE <<n % Base, (n \div Base) % Base, n \div (Base * Base)>>

RECURSIVE NToIntFrom(_, _)
NToIntFrom(a, i) ==
    IF i > Len(a) THEN 0 ELSE a[i] + Base * NToIntFrom(a, i + 1)

NToInt(a) == NToIntFrom(a, 1)

Limb(a, i) == IF i <= Len(a) THEN a[i] ELSE 0

RECURSIVE NCmpFrom(_, _, _)
NCmpFrom(a, b, i) ==
    IF i = 0 THEN 0
    ELSE IF a[i] < b[i] THEN -1
    ELSE IF a[i] > b[i] THEN 1
    ELSE NCmpFrom(a, b, i - 1)

\* -1, 0, 1 as a < b, a = b, a > b
NCmp(a, b) == Call("NCmp", <<a, b>>)
NCmpBody(a, b) ==
    IF Len(a) < Len(b) THEN -1
    ELSE IF Len(a) > Len(b) THEN 1
    ELSE NCmpFrom(a, b, Len(a))

\* the limbs are added in place; a carry enters limb i when a limb below it
\* overflows and every limb between the two is full
NAdd(a, b) == Call("NAdd", <<a, b>>)
NAddBody(a, b) ==
    LET n == IF Len(a) > Len(b) THEN Len(a) ELSE Len(b)
        t == Array([i \in 1..n |-> Limb(a, i) + Limb(b, i)])
        carry(i) == \E j \in 1..(i - 1) :
                        t[j] >= Base /\ \A k \in (j + 1)..(i - 1) : t[k] = Base - 1
    IN  Array([i \in 1..n |-> (t[i] + (IF carry(i) THEN 1 ELSE 0)) % Base])
            \o (IF carry(n + 1) THEN <<1>> ELSE <<>>)

\* a - b for a >= b; a borrow enters limb i when a limb below it falls short
\* and every limb between the two is level
NSub(a, b) == Call("NSub", <<a, b>>)
NSubBody(a, b) ==
    LET borrow(i) == \E j \in 1..(i - 1) :
                         a[j] < Limb(b, j) /\ \A k \in (j + 1)..(i - 1) : a[k] = Limb(b, k)
    IN  NStrip(Array([i \in 1..Len(a) |->
                   (a[i] - Limb(b, i) - (IF borrow(i) THEN 1 ELSE 0)) % Base]))

\* a * k for 0 <= k < Base: the low halves of the limb products plus their
\* high halves one limb up
NMulSmall(a, k) == Call("NMulSmall", <<a, k>>)
NMulSmallBody(a, k) ==
    NStrip(NAddBody(Array([i \in 1..Len(a) |-> (a[i] * k) % Base]),
                    <<0>> \o Array([i \in 1..Len(a) |-> (a[i] * k) \div Base])))

Zeros(n) == [i \in 1..n |-> 0]

RECURSIVE NMulFrom(_, _, _)
NMulFrom(a, b, i) ==
    IF i > Len(b) THEN <<>>
    ELSE NAdd(IF b[i] = 0 THEN <<>> ELSE Zeros(i - 1) \o NMulSmall(a, b[i]),
              NMulFrom(a, b, i + 1))

NMul(a, b) == Call("NMul", <<a, b>>)
NMulBody(a, b) == IF a = <<>> \/ b = <<>> THEN <<>> ELSE NMulFrom(a, b, 1)

\* a * 2^s
NShl(a, s) == Call("NShl", <<a, s>>)
NShlBody(a, s) ==
    IF a = <<>> THEN a
    ELSE Zeros(s \div 15) \o NMulSmall(a, 2^(s % 15))

\* floor(a / 2^s)
NShr(a, s) == Call("NShr", <<a, s>>)
NShrBody(a, s) ==
    LET d == s \div 15
        r == s % 15
        n == Len(a) - d
    IN  IF n <= 0 THEN <<>>
        ELSE NStrip([i \in 1..n |->
                 (a[i + d] \div 2^r) + (Limb(a, i + d + 1) % 2^r) * 2^(15 - r)]
                    \o <<>>)

\* bit i (from 0) of a
NBit(a, i) == (Limb(a, i \div 15 + 1) \div 2^(i % 15)) % 2

\* the s low bits of a are all zero
NLowZero(a, s) ==
    /\ \A i \in 1..(s \div 15) : Limb(a, i) = 0
    /\ Limb(a, s \div 15 + 1) % 2^(s % 15) = 0

RECURSIVE BitLenSmall(_)
BitLenSmall(x) == IF x = 0 THEN 0 ELSE 1 + BitLenSmall(x \div 2)

NBitLen(a) == IF a = <<>> THEN 0 ELSE 15 * (Len(a) - 1) + BitLenSmall(a[Len(a)])

NOdd(a) == Limb(a, 1) % 2 = 1

\* the largest qt with qt * d <= r, searched downward from the estimate qt
RECURSIVE QFix(_, _, _)
QFix(qt, d, r) ==
    IF NCmp(NMulSmall(d, qt), r) > 0 THEN QFix(qt - 1, d, r) ELSE qt

\* schoolbook long division by d (its top limb >= Base/2), the limbs of
\* a from limb i down: <<quotient, remainder>>
RECURSIVE NDivFrom(_, _, _, _, _)
NDivFrom(a, d, i, qt, r) ==
    IF i = 0 THEN <<NStrip(qt), r>>
    ELSE LET n   == Len(d)
             r1  == NStrip(<<a[i]>> \o r)
             guess == (Limb(r1, n + 1) * Base + Limb(r1, n)) \div d[n]
             qd  == IF Len(r1) < n THEN 0
                    ELSE QFix(IF guess > Base - 1 THEN Base - 1 ELSE guess, d, r1)
             r2  == IF qd = 0 THEN r1 ELSE NSub(r1, NMulSmall(d, qd))
         IN  IF Len(r2) >= 0 /\ Len(qt) >= 0
             THEN NDivFrom(a, d, i - 1, <<qd>> \o qt, r2)
             ELSE <<qt, r>>

\* <<floor(a / b), a mod b>> for b # 0
NDivMod(a, b) == Call("NDivMod", <<a, b>>)
NDivModBody(a, b) ==
    LET sh == 15 - BitLenSmall(b[Len(b)])
        a1 == NShl(a, sh)
        qr == NDivFrom(a1, NShl(b, sh), Len(a1), <<>>, <<>>)
    IN  <<qr[1], NShr(qr[2], sh)>>

RECURSIVE SmallSqrtFrom(_, _, _)
SmallSqrtFrom(t, s, b) ==
    IF b = 0 THEN s
    ELSE IF (s + b) * (s + b) <= t THEN SmallSqrtFrom(t, s + b, b \div 2)
    ELSE SmallSqrtFrom(t, s, b \div 2)

\* floor(sqrt(t)) for 0 <= t < 2^30
SmallSqrt(t) == SmallSqrtFrom(t, 0, 2^14)

\* Newton's iteration downward from x >= floor(sqrt(a)): floor(sqrt(a))
RECURSIVE NSqrtNewton(_, _)
NSqrtNewton(a, x) ==
    LET y == NShr(NAdd(x, NDivMod(a, x)[1]), 1)
    IN  IF NCmp(y, x) >= 0 THEN x ELSE NSqrtNewton(a, y)

\* <<floor(sqrt(a)), a - floor(sqrt(a))^2>> for a # 0
NSqrtRem(a) == Call("NSqrtRem", <<a>>)
NSqrtRemBody(a) ==
    LET L  == NBitLen(a)
        sh == IF L <= 30 THEN 0 ELSE 2 * ((L - 29) \div 2)
        x0 == NShl(NFromInt(SmallSqrt(NToInt(NShr(a, sh))) + 1), sh \div 2)
        s  == NSqrtNewton(a, x0)
    IN  <<s, NSub(a, NMul(s, s))>>

(***************************************************************************)
(* IEEE-754 binary64.                                                      *)
(***************************************************************************)
Prec == 53
MinExp == -1074
MaxExp == 971

NaN == [k |-> "nan", s |-> 0, m |-> <<>>, e |-> 0]
Inf(s) == [k |-> "inf", s |-> s, m |-> <<>>, e |-> 0]
Zero(s) == [k |-> "num", s |-> s, m |-> <<>>, e |-> 0]

IsNaN(x) == x.k = "nan"
IsInf(x) == x.k = "inf"
IsFinite(x) == x.k = "num"
IsZero(x) == x.k = "num" /\ x.m = <<>>

\* the binary64 nearest (ties to even) to (-1)^s * (M + f) * 2^E, where
\* 0 <= f < 1 and sticky tells f > 0; above the largest finite value: infinity
Round(s, M, E, sticky) == Call("Round", <<s, M, E, sticky>>)
RoundBody(s, M, E, sticky) ==
    IF M = <<>> THEN Zero(s)
    ELSE LET L  == NBitLen(M)
             e1 == IF E + L - Prec < MinExp THEN MinExp ELSE E + L - Prec
             sh == e1 - E
         IN  IF sh <= 0
             THEN IF e1 > MaxExp THEN Inf(s)
                  ELSE [k |-> "num", s |-> s, m |-> NShl(M, -sh), e |-> e1]
             ELSE LET qt     == NShr(M, sh)
                      guard == NBit(M, sh - 1) = 1
                      rest  == sticky \/ ~NLowZero(M, sh - 1)
                      up    == guard /\ (rest \/ NOdd(qt))
                      q1    == IF up THEN NAdd(qt, <<1>>) ELSE qt
                      carry == NBitLen(q1) > Prec
                      m2    == IF carry THEN NShr(q1, 1) ELSE q1
                      e2    == IF carry THEN e1 + 1 ELSE e1
                  IN  IF e2 > MaxExp THEN Inf(s)
                      ELSE IF m2 = <<>> THEN Zero(s)
                      ELSE [k |-> "num", s |-> s, m |-> m2, e |-> e2]

FromInt(n) == Call("FromInt", <<n>>)
FromIntBody(n) == IF n < 0 THEN Round(1, NFromInt(-n), 0, FALSE)
              ELSE Round(0, NFromInt(n), 0, FALSE)

FNeg(x) == IF IsNaN(x) THEN x ELSE [x EXCEPT !.s = 1 - x.s]

FAbs(x) == IF IsNaN(x) THEN x ELSE [x EXCEPT !.s = 0]

\* a + b for nonzero finite a, b with |b| < 2^-7 ulp(a): b only tells on which
\* side of a the exact sum lies
FarAdd(a, b) ==
    IF a.s = b.s THEN Round(a.s, NShl(a.m, 3), a.e - 3, TRUE)
    ELSE Round(a.s, NSub(NShl(a.m, 3), <<1>>), a.e - 3, TRUE)

FAdd(a, b) == Call("FAdd", <<a, b>>)
FAddBody(a, b) ==
    IF IsNaN(a) \/ IsNaN(b) THEN NaN
    ELSE IF IsInf(a) THEN (IF IsInf(b) /\ a.s # b.s THEN NaN ELSE a)
    ELSE IF IsInf(b) THEN b
    ELSE IF IsZero(a) /\ IsZero(b) THEN Zero(IF a.s = 1 /\ b.s = 1 THEN 1 ELSE 0)
    ELSE IF IsZero(a) THEN b
    ELSE IF IsZero(b) THEN a
    ELSE IF a.e - b.e > Prec + 7 THEN FarAdd(a, b)
    ELSE IF b.e - a.e > Prec + 7 THEN FarAdd(b, a)
    ELSE LET lo == IF a.e < b.e THEN a.e ELSE b.e
             A  == NShl(a.m, a.e - lo)
             B  == NShl(b.m, b.e - lo)
             c  == NCmp(A, B)
         IN  IF a.s = b.s THEN Round(a.s, NAdd(A, B), lo, FALSE)
             ELSE IF c = 0 THEN Zero(0)
             ELSE IF c > 0 THEN Round(a.s, NSub(A, B), lo, FALSE)
             ELSE Round(b.s, NSub(B, A), lo, FALSE)

FSub(a, b) == FAdd(a, FNeg(b))

FMul(a, b) == Call("FMul", <<a, b>>)
FMulBody(a, b) ==
    IF IsNaN(a) \/ IsNaN(b) THEN NaN
    ELSE LET s == (a.s + b.s) % 2
         IN  IF IsInf(a) \/ IsInf(b)
             THEN (IF IsZero(a) \/ IsZero(b) THEN NaN ELSE Inf(s))
             ELSE Round(s, NMul(a.m, b.m), a.e + b.e, FALSE)

\* IEEE division (numpy arrays and JavaScript: x/0 is an infinity, 0/0 is NaN)
FDiv(a, b) == Call("FDiv", <<a, b>>)
FDivBody(a, b) ==
    IF IsNaN(a) \/ IsNaN(b) THEN NaN
    ELSE LET s == (a.s + b.s) % 2
         IN  IF IsInf(a) THEN (IF IsInf(b) THEN NaN ELSE Inf(s))
             ELSE IF IsInf(b) THEN Zero(s)
             ELSE IF IsZero(b) THEN (IF IsZero(a) THEN NaN ELSE Inf(s))
             ELSE IF IsZero(a) THEN Zero(s)
             ELSE LET sa == Prec - NBitLen(a.m)
                      sb == Prec - NBitLen(b.m)
                      qr == NDivMod(NShl(a.m, sa + Prec + 3), NShl(b.m, sb))
                  IN  Round(s, qr[1], (a.e - sa) - (b.e - sb) - (Prec + 3),
                            qr[2] # <<>>)

FSqrt(a) == Call("FSqrt", <<a>>)
FSqrtBody(a) ==
    IF IsNaN(a) THEN NaN
    ELSE IF IsZero(a) THEN a
    ELSE IF a.s = 1 THEN NaN
    ELSE IF IsInf(a) THEN a
    ELSE LET sa == Prec - NBitLen(a.m)
             ne == a.e - sa
             sh == IF (ne - (Prec + 3)) % 2 = 0 THEN Prec + 3 ELSE Prec + 4
             rr == NSqrtRem(NShl(a.m, sa + sh))
         IN  Round(0, rr[1], (ne - sh) \div 2, rr[2] # <<>>)

\* -1, 0, 1 as a < b, a = b, a > b; neither is NaN
MagCmp(a, b) ==
    IF IsZero(a) THEN (IF IsZero(b) THEN 0 ELSE -1)
    ELSE IF IsZero(b) THEN 1
    ELSE IF IsInf(a) THEN (IF IsInf(b) THEN 0 ELSE 1)
    ELSE IF IsInf(b) THEN -1
    ELSE IF a.e < b.e THEN -1
    ELSE IF a.e > b.e THEN 1
    ELSE NCmp(a.m, b.m)

FCmp(a, b) == Call("FCmp", <<a, b>>)
FCmpBody(a, b) ==
    IF IsZero(a) /\ IsZero(b) THEN 0
    ELSE IF a.s # b.s THEN (IF IsZero(a) THEN (IF b.s = 1 THEN 1 ELSE -1)
                            ELSE IF a.s = 1 THEN -1 ELSE 1)
    ELSE IF a.s = 0 THEN MagCmp(a, b) ELSE MagCmp(b, a)

\* comparisons: every comparison with NaN is false
FLe(a, b) == ~IsNaN(a) /\ ~IsNaN(b) /\ FCmp(a, b) <= 0
FLt(a, b) == ~IsNaN(a) /\ ~IsNaN(b) /\ FCmp(a, b) < 0
FEq(a, b) == ~IsNaN(a) /\ ~IsNaN(b) /\ FCmp(a, b) = 0

\* floor(|x|) of a finite x as an integer (|x| < 2^31)
MagFloor(x) == Call("MagFloor", <<x>>)
MagFloorBody(x) ==
    IF IsZero(x) THEN 0
    ELSE IF x.e >= 0 THEN NToInt(NShl(x.m, x.e))
    ELSE NToInt(NShr(x.m, -x.e))

\* x is a whole number
IsWhole(x) == IsZero(x) \/ x.e >= 0 \/ NLowZero(x.m, -x.e)

\* the decimal literal n / 10^d: the binary64 nearest to it
Dec(n, d) == Call("Dec", <<n, d>>)
DecBody(n, d) == FDiv(FromInt(n), FromInt(10^d))

RECURSIVE NPow(_, _)
NPow(a, p) ==
    IF p = 0 THEN <<1>>
    ELSE LET h == NPow(a, p - 1) IN IF h = <<>> THEN h ELSE NMul(h, a)

\* the number of low zero bits of a # 0
RECURSIVE NLowZeros(_, _)
NLowZeros(a, i) == IF NBit(a, i) = 1 THEN i ELSE NLowZeros(a, i + 1)

\* x ** p for a whole exponent p >= 1: the exact power, rounded once.
\* numpy squares for the exponent 2; for the other exponents the library's
\* pow is taken as correctly rounded (it is exact on powers of two).
FPow(x, p) == Call("FPow", <<x, p>>)
FPowBody(x, p) ==
    IF IsNaN(x) THEN NaN
    ELSE LET s == IF p % 2 = 1 THEN x.s ELSE 0
         IN  IF IsInf(x) THEN Inf(s)
             ELSE IF IsZero(x) THEN Zero(s)
             ELSE LET t == NLowZeros(x.m, 0)
                  IN  Round(s, NPow(NShr(x.m, t), p), (x.e + t) * p, FALSE)

\* int(x) of Python for a finite x: truncation toward zero
PyInt(x) == IF x.s = 1 THEN -MagFloor(x) ELSE MagFloor(x)

\* ceil(x) of a finite x
CeilInt(x) == Call("CeilInt", <<x>>)
CeilIntBody(x) ==
    IF x.s = 1 THEN -MagFloor(x)
    ELSE IF IsWhole(x) THEN MagFloor(x) ELSE MagFloor(x) + 1

\* Math.round(x) of JavaScript for a finite x: the nearest integer, a tie
\* going toward +Infinity
JsRound(x) == Call("JsRound", <<x>>)
JsRoundBody(x) ==
    LET half == ~IsZero(x) /\ x.e < 0 /\ NBit(x.m, -x.e - 1) = 1
        more == half /\ ~NLowZero(x.m, -x.e - 1)
    IN  IF x.s = 0 THEN MagFloor(x) + (IF half THEN 1 ELSE 0)
        ELSE -(MagFloor(x) + (IF more THEN 1 ELSE 0))

Sample(lon, lat, value) == [lon |-> lon, lat |-> lat, value |-> value]

One == FromInt(1)

\* np.finfo(float).eps and Number.EPSILON: 2^-52
Eps == Round(0, <<1>>, 1 - Prec, FALSE)

\* np.sum of a short 1-D array, and the handler's += loop: left to right from 0
RECURSIVE FSumFrom(_, _, _)
FSumFrom(xs, i, acc) ==
    IF i > Len(xs) THEN acc ELSE FSumFrom(xs, i + 1, FAdd(acc, xs[i]))

FSum(xs) == Call("FSum", <<xs>>)
FSumBody(xs) == FSumFrom(xs, 1, Zero(0))

(***************************************************************************)
(* interpolate_idw_point (src/interpolate.py)                              *)
(***************************************************************************)
PointDists(d, qlon, qlat) ==
    Array([i \in 1..Len(d) |->
        FSqrt(FAdd(FPow(FSub(d[i].lon, qlon), 2), FPow(FSub(d[i].lat, qlat), 2)))])

\* dists[dists == 0] = np.finfo(float).eps
PointZeroFix(dists) ==
    Array([i \in 1..Len(dists) |-> IF FEq(dists[i], Zero(0)) THEN Eps ELSE dists[i]])

PointWeights(dists, p) ==
    Array([i \in 1..Len(dists) |-> FDiv(One, FPow(dists[i], p))])

\* a variant of interpolate_idw_point whose gate lets two samples through
PointGateTwo(d, qlon, qlat, p) ==
    IF Len(d) = 0 \/ Len(d) < 2 THEN NaN
    ELSE LET weights == PointWeights(PointZeroFix(PointDists(d, qlon, qlat)), p)
         IN  FDiv(FSum(Array([i \in 1..Len(d) |-> FMul(weights[i], d[i].value)])),
                  FSum(weights))

InterpolateIdwPoint(d, qlon, qlat, p) == Call("InterpolateIdwPoint", <<d, qlon, qlat, p>>)
InterpolateIdwPointBody(d, qlon, qlat, p) ==
    IF Len(d) = 0 \/ Len(d) < 3 THEN NaN
    ELSE LET weights == PointWeights(PointZeroFix(PointDists(d, qlon, qlat)), p)
         IN  FDiv(FSum(Array([i \in 1..Len(d) |-> FMul(weights[i], d[i].value)])),
                  FSum(weights))

(***************************************************************************)
(* interpolate_idw (src/interpolate.py)                                    *)
(***************************************************************************)
RECURSIVE FMinFrom(_, _, _)
FMinFrom(xs, i, acc) ==
    IF i > Len(xs) THEN acc
    ELSE FMinFrom(xs, i + 1, IF FLt(xs[i], acc) THEN xs[i] ELSE acc)

FMin(xs) == Call("FMin", <<xs>>)
FMinBody(xs) == FMinFrom(xs, 2, xs[1])

RECURSIVE FMaxFrom(_, _, _)
FMaxFrom(xs, i, acc) ==
    IF i > Len(xs) THEN acc
    ELSE FMaxFrom(xs, i + 1, IF FLt(acc, xs[i]) THEN xs[i] ELSE acc)

FMax(xs) == Call("FMax", <<xs>>)
FMaxBody(xs) == FMaxFrom(xs, 2, xs[1])

Lons(d) == Array([i \in 1..Len(d) |-> d[i].lon])
Lats(d) == Array([i \in 1..Len(d) |-> d[i].lat])
Values(d) == Array([i \in 1..Len(d) |-> d[i].value])

\* a variant of the envelope with no margin
MarginZero == Zero(0)

\* the margin 0.1 of the envelope
Margin == Dec(1, 1)

\* np.arange(start, stop, step) on floats: ceil((stop - start) / step)
\* elements; the first two are start and start + step, the others
\* start + k * delta with delta the difference of the first two
ArangeLen(start, stop, step) ==
    LET n == CeilInt(FDiv(FSub(stop, start), step))
    IN  IF n < 0 THEN 0 ELSE n

Arange(start, stop, step) == Call("Arange", <<start, stop, step>>)
ArangeBody(start, stop, step) ==
    LET next  == FAdd(start, step)
        delta == FSub(next, start)
    IN  Array([k \in 1..ArangeLen(start, stop, step) |->
                  IF k = 1 THEN start
                  ELSE IF k = 2 THEN next
                  ELSE FAdd(start, FMul(FromInt(k - 1), delta))])

\* np.meshgrid(lons, lats): both of shape (len(lats), len(lons))
MeshLon(lons, lats) == [i \in 1..Len(lats) |-> lons]
MeshLat(lons, lats) == [i \in 1..Len(lats) |-> [j \in 1..Len(lons) |-> lats[i]]]

\* np.full_like(grid_lon, np.nan)
FullLikeNaN(mesh) == [i \in 1..Len(mesh) |-> [j \in 1..Len(mesh[i]) |-> NaN]]

CellDists(d, qlon, qlat) ==
    Array([i \in 1..Len(d) |->
        FSqrt(FAdd(FPow(FSub(d[i].lon, qlon), 2), FPow(FSub(d[i].lat, qlat), 2)))])

\* a variant of the loop body that keeps a zero distance
CellNoFix(dists) == dists

\* dists[dists == 0] = np.finfo(float).eps
CellZeroFix(dists) ==
    Array([i \in 1..Len(dists) |-> IF FEq(dists[i], Zero(0)) THEN Eps ELSE dists[i]])

CellWeights(dists, p) ==
    Array([i \in 1..Len(dists) |-> FDiv(One, FPow(dists[i], p))])

\* the body of the double loop for one node
CellValue(d, qlon, qlat, p) == Call("CellValue", <<d, qlon, qlat, p>>)
CellValueBody(d, qlon, qlat, p) ==
    LET weights == CellWeights(CellZeroFix(CellDists(d, qlon, qlat)), p)
    IN  FDiv(FSum(Array([i \in 1..Len(d) |-> FMul(weights[i], d[i].value)])),
             FSum(weights))

(***************************************************************************)
(* pm25_to_aqi and get_aqi_alert (src/app.py)                              *)
(***************************************************************************)
\* values float() does not accept: None (TypeError), a non-numeric string
\* (ValueError)
NoneValue == [k |-> "none", s |-> 0, m |-> <<>>, e |-> 0]
TextValue == [k |-> "text", s |-> 0, m |-> <<>>, e |-> 0]

Pm25ToAqi(x) == Call("Pm25ToAqi", <<x>>)
Pm25ToAqiBody(x) ==
    IF x.k \in {"none", "text"} THEN 0
    ELSE IF FLe(x, FromInt(12))
         THEN PyInt(FMul(FDiv(FromInt(50), FromInt(12)), x))
    ELSE IF FLe(x, Dec(354, 1))
         THEN PyInt(FAdd(FromInt(50),
                         FMul(FDiv(FromInt(50), Dec(234, 1)), FSub(x, Dec(121, 1)))))
    ELSE IF FLe(x, Dec(554, 1))
         THEN PyInt(FAdd(FromInt(100),
                         FMul(FDiv(FromInt(50), FromInt(20)), FSub(x, Dec(355, 1)))))
    ELSE IF FLe(x, Dec(1504, 1))
         THEN PyInt(FAdd(FromInt(150),
                         FMul(FDiv(FromInt(50), FromInt(95)), FSub(x, Dec(555, 1)))))
    ELSE 201

GetAqiAlert(a) ==
    IF a <= 50 THEN "Good"
    ELSE IF a <= 100 THEN "Moderate"
    ELSE IF a <= 150 THEN "Unhealthy for Sensitive"
    ELSE "Unhealthy"

(***************************************************************************)
(* The click handler embedded in the map (JavaScript in src/app.py)        *)
(***************************************************************************)
\* json.dumps of the station records and the browser's parse of it: Python
\* writes the shortest decimal that reads back as the same binary64
JsonStations(d) == Array([i \in 1..Len(d) |-> Sample(d[i].lon, d[i].lat, d[i].value)])

ClickWeights(stations, lat, lng) ==
    Array([i \in 1..Len(stations) |->
        LET dist == FSqrt(FAdd(FPow(FSub(stations[i].lon, lng), 2),
                               FPow(FSub(stations[i].lat, lat), 2)))
        IN  FDiv(One, FPow(IF FEq(dist, Zero(0)) THEN Eps ELSE dist, 2))])

ClickPm25(stations, lat, lng) ==
    LET weights == ClickWeights(stations, lat, lng)
    IN  FDiv(FSum(Array([i \in 1..Len(stations) |->
                            FMul(weights[i], stations[i].value)])),
             FSum(weights))

JsAqi(x) == Call("JsAqi", <<x>>)
JsAqiBody(x) ==
    IF FLe(x, FromInt(12))
    THEN JsRound(FMul(FDiv(FromInt(50), FromInt(12)), x))
    ELSE IF FLe(x, Dec(354, 1))
         THEN JsRound(FAdd(FromInt(50),
                           FMul(FDiv(FromInt(50), Dec(234, 1)), FSub(x, Dec(121, 1)))))
    ELSE IF FLe(x, Dec(554, 1))
         THEN JsRound(FAdd(FromInt(100),
                           FMul(FDiv(FromInt(50), FromInt(20)), FSub(x, Dec(355, 1)))))
    ELSE IF FLe(x, Dec(1504, 1))
         THEN JsRound(FAdd(FromInt(150),
                           FMul(FDiv(FromInt(50), FromInt(95)), FSub(x, Dec(555, 1)))))
    ELSE 201

JsAlert(a) ==
    IF a <= 50 THEN "Good"
    ELSE IF a <= 100 THEN "Moderate"
    ELSE IF a <= 150 THEN "Unhealthy for Sensitive"
    ELSE "Unhealthy"

ClickHandler(stations, lat, lng) == Call("ClickHandler", <<stations, lat, lng>>)
ClickHandlerBody(stations, lat, lng) ==
    LET x == ClickPm25(stations, lat, lng)
        a == JsAqi(x)
    IN  [pm25 |-> x, aqi |-> a, alert |-> JsAlert(a),
         content |-> IF IsNaN(x) THEN "No data" ELSE "AQI"]

NoPopup == [pm25 |-> NaN, aqi |-> -1, alert |-> "", content |-> ""]

(***************************************************************************)
(* create_map (src/visualize.py): the colors                               *)
(***************************************************************************)
\* get_color of a station marker, from the station's score
GetColor(a) ==
    IF a <= 50 THEN "green"
    ELSE IF a <= 100 THEN "yellow"
    ELSE IF a <= 150 THEN "orange"
    ELSE "red"

\* contourf with levels 0, 12, 35.4, 55.4, max_value, the colors green,
\* yellow, orange, red in that order and extend='max': a band is closed at
\* its top, the lowest band at both ends; a value above the last level takes
\* the last color; a NaN cell and a value below 0 are not shaded
ContourColor(v) ==
    IF IsNaN(v) \/ FLt(v, FromInt(0)) THEN "none"
    ELSE IF FLe(v, FromInt(12)) THEN "green"
    ELSE IF FLe(v, Dec(354, 1)) THEN "yellow"
    ELSE IF FLe(v, Dec(554, 1)) THEN "orange"
    ELSE "red"

\* data['aqi'] = data['value'].apply(pm25_to_aqi) (src/app.py)
WithAqi(d) ==
    Array([i \in 1..Len(d) |->
        [lon |-> d[i].lon, lat |-> d[i].lat, value |-> d[i].value,
         aqi |-> Pm25ToAqi(d[i].value)]])

\* get_alert of create_map: the text get_aqi_alert gives
GetAlert(a) ==
    IF a <= 50 THEN "Good"
    ELSE IF a <= 100 THEN "Moderate"
    ELSE IF a <= 150 THEN "Unhealthy for Sensitive"
    ELSE "Unhealthy"

\* the loop over data.iterrows(): one CircleMarker per row, in row order
StationMarkers(rows) ==
    Array([i \in 1..Len(rows) |->
        [kind |-> "CircleMarker", lat |-> rows[i].lat, lon |-> rows[i].lon,
         color |-> GetColor(rows[i].aqi), aqi |-> rows[i].aqi,
         alert |-> GetAlert(rows[i].aqi)]])

\* the one Marker of a map without data, at [27.7, 85.3]
NoDataMarker ==
    [kind |-> "Marker", lat |-> Dec(277, 1), lon |-> Dec(853, 1), color |-> "",
     aqi |-> 0, alert |-> "No data available"]

\* np.all(np.isnan(grid_values)): np.isnan(None) raises TypeError
AllNaN(ret, gvals) ==
    IF ret = "none" THEN "TypeError"
    ELSE IF \A i \in 1..Len(gvals) : \A j \in 1..Len(gvals[i]) : IsNaN(gvals[i][j])
         THEN "True"
    ELSE "False"

\* a variant of the first test of create_map without "grid_lon is None or
\* grid_values is None"
MapBranchNoneUnchecked(ret, gvals, d) ==
    IF Len(d) = 0 THEN "default"
    ELSE CASE AllNaN(ret, gvals) = "True" -> "default"
           [] AllNaN(ret, gvals) = "False" -> "overlay"
           [] OTHER -> "raise"

\* data.empty or grid_lon is None or grid_values is None or
\* np.all(np.isnan(grid_values)), evaluated left to right
MapBranch(ret, gvals, d) ==
    IF Len(d) = 0 \/ ret = "none" THEN "default"
    ELSE CASE AllNaN(ret, gvals) = "True" -> "default"
           [] AllNaN(ret, gvals) = "False" -> "overlay"
           [] OTHER -> "raise"

\* grid_values[~np.isnan(grid_values)], row by row
RECURSIVE ValidValues(_, _)
ValidValues(gvals, i) ==
    IF i > Len(gvals) THEN <<>>
    ELSE SelectSeq(gvals[i], LAMBDA v : ~IsNaN(v)) \o ValidValues(gvals, i + 1)

\* [[bbox[1], bbox[0]], [bbox[3], bbox[2]]]
FitBounds(bbox) == <<bbox[2], bbox[1], bbox[4], bbox[3]>>

NoOverlay == [drawn |-> FALSE, top |-> Zero(0)]

\* no map: None, and what a create_map that raised leaves behind
NoMap ==
    [kind |-> "none", markers |-> <<>>, overlay |-> NoOverlay, bounds |-> <<>>,
     handler |-> <<>>]

\* create_map: the map it returns, or the exception it raises.  The
\* overlay is the contourf image, top its last level max_value.
CreateMap(ret, glon, glat, gvals, rows, bbox) ==
    Call("CreateMap", <<ret, glon, glat, gvals, rows, bbox>>)
CreateMapBody(ret, glon, glat, gvals, rows, bbox) ==
    CASE MapBranch(ret, gvals, rows) = "default" ->
            [kind |-> "map",
             markers |-> IF Len(rows) = 0 THEN <<NoDataMarker>> ELSE StationMarkers(rows),
             overlay |-> NoOverlay,
             bounds |-> FitBounds(bbox), handler |-> <<>>]
      [] MapBranch(ret, gvals, rows) = "overlay" ->
            IF Len(ValidValues(gvals, 1)) = 0
            THEN [kind |-> "map", markers |-> StationMarkers(rows),
                  overlay |-> NoOverlay, bounds |-> FitBounds(bbox), handler |-> <<>>]
            ELSE LET top == FMax(ValidValues(gvals, 1))
                 IN  [kind |-> "map", markers |-> StationMarkers(rows),
                      overlay |-> [drawn |-> TRUE,
                                   top |-> FAdd(IF FLt(top, Dec(554, 1)) THEN Dec(554, 1)
                                                ELSE top, One)],
                      bounds |-> FitBounds(bbox), handler |-> <<>>]
      [] OTHER -> [kind |-> "raise", markers |-> <<>>, overlay |-> NoOverlay,
                   bounds |-> <<>>, handler |-> <<>>]

\* the notice of the refresh: "grid_lon is None or np.all(np.isnan(grid_pm25))"
Notice(ret, gvals) ==
    IF ret = "none" THEN "warning"
    ELSE IF AllNaN(ret, gvals) = "True" THEN "warning" ELSE "success"

NoGrid == [ret |-> "none", lon |-> <<>>, lat |-> <<>>, values |-> <<>>]

\* st.session_state before the first run of the script
NoSession ==
    [set |-> FALSE, last_update |-> 0, map |-> NoMap, data |-> <<>>,
     selected_region |-> "None", grid |-> NoGrid]

\* nothing displayed yet
NoShown == [region |-> "", map |-> NoMap, data |-> <<>>, notice |-> "", updated |-> FALSE]

\* REGIONS: name |-> (min_lon, min_lat, max_lon, max_lat), written in tenths
\* of a degree
REGIONS ==
    [r \in {"London, UK", "Delhi, India", "New York City, USA", "Houston, USA"} |->
        CASE r = "London, UK" -> <<-5, 513, 3, 517>>
          [] r = "Delhi, India" -> <<768, 284, 774, 289>>
          [] r = "New York City, USA" -> <<-743, 405, -737, 409>>
          [] r = "Houston, USA" -> <<-958, 295, -950, 300>>]

\* bbox = REGIONS[selected_region], as floats
Bbox(r) == Array([i \in 1..4 |-> Dec(REGIONS[r][i], 1)])

(***************************************************************************)
(* One run of the script (src/app.py) and fetch_latest_pm25                *)
(***************************************************************************)
RefreshInterval == 300

\* grid_resolution, from the larger span of the bbox
GridResolution(bbox) ==
    LET lon_span == FSub(bbox[3], bbox[1])
        lat_span == FSub(bbox[4], bbox[2])
        area_span == IF FLt(lon_span, lat_span) THEN lat_span ELSE lon_span
    IN  IF FLt(area_span, FromInt(1)) THEN Dec(5, 3)
        ELSE IF FLt(area_span, FromInt(5)) THEN Dec(2, 2)
        ELSE Dec(5, 2)

\* fetch_latest_pm25(bbox) for an answer of the API: a RequestException gives
\* an empty frame, results without the expected keys raise, the rows of the
\* results are filtered by the bbox
FetchLatestPm25(bbox, api) ==
    CASE api.kind = "requestError" -> [kind |-> "frame", rows |-> <<>>]
      [] api.kind = "malformed" -> [kind |-> "raise", rows |-> <<>>]
      [] OTHER ->
            [kind |-> "frame",
             rows |-> SelectSeq(api.results,
                         LAMBDA row : /\ FLe(bbox[1], row.lon) /\ FLe(row.lon, bbox[3])
                                      /\ FLe(bbox[2], row.lat) /\ FLe(row.lat, bbox[4]))]

\* interpolate_idw as one call
InterpolateIdw(d, r, p) ==
    IF Len(d) = 0 \/ Len(d) < 3 THEN NoGrid
    ELSE LET lons == Arange(FSub(FMin(Lons(d)), Margin), FAdd(FMax(Lons(d)), Margin), r)
             lats == Arange(FSub(FMin(Lats(d)), Margin), FAdd(FMax(Lats(d)), Margin), r)
         IN  [ret |-> "grid", lon |-> MeshLon(lons, lats), lat |-> MeshLat(lons, lats),
              values |-> Array([i \in 1..Len(lats) |->
                            Array([j \in 1..Len(lons) |->
                                CellValue(d, lons[j], lats[i], p)])])]

\* the script from top to bottom with the region sel selected, the session
\* state s, at time t, the API answering api if it is asked, and the
\* "Refresh Now" button pressed or not: the session state it leaves and what
\* it displayed
ScriptRun(sel, s, t, api, button) == Call("ScriptRun", <<sel, s, t, api, button>>)
ScriptRunBody(sel, s, t, api, button) ==
    LET bbox == Bbox(sel)
        s1 == IF s.set THEN s ELSE [NoSession EXCEPT !.set = TRUE]
        s2 == IF s1.selected_region # sel
              THEN [s1 EXCEPT !.last_update = 0, !.selected_region = sel]
              ELSE s1
        refresh == t - s2.last_update > RefreshInterval
        fetched == Call("FetchLatestPm25", <<bbox, api>>)
        rows == Call("WithAqi", <<fetched.rows>>)
        g == Call("InterpolateIdw", <<rows, Call("GridResolution", <<bbox>>), 2>>)
        mp == CreateMap(g.ret, g.lon, g.lat, g.values, rows, bbox)
        stored == refresh /\ fetched.kind = "frame" /\ Len(fetched.rows) # 0
                    /\ mp.kind = "map"
        s3 == IF stored
              THEN [s2 EXCEPT !.map = [mp EXCEPT !.handler = JsonStations(rows)],
                              !.data = rows, !.grid = g, !.last_update = t]
              ELSE s2
        msg == IF ~refresh THEN ""
               ELSE IF ~stored THEN "error"
               ELSE Notice(g.ret, g.values)
    IN  [ss |-> IF button THEN [s3 EXCEPT !.last_update = 0] ELSE s3,
         shown |-> [region |-> sel, map |-> s3.map, data |-> s3.data, notice |-> msg,
                    updated |-> stored]]

Call(op, x) ==
    CASE op = "NMulSmall" -> NMulSmallBody(x[1], x[2])
      [] op = "NCmp" -> NCmpBody(x[1], x[2])
      [] op = "NSub" -> NSubBody(x[1], x[2])
      [] op = "NAdd" -> NAddBody(x[1], x[2])
      [] op = "NShl" -> NShlBody(x[1], x[2])
      [] op = "NShr" -> NShrBody(x[1], x[2])
      [] op = "Round" -> RoundBody(x[1], x[2], x[3], x[4])
      [] op = "NMul" -> NMulBody(x[1], x[2])
      [] op = "NDivMod" -> NDivModBody(x[1], x[2])
      [] op = "NSqrtRem" -> NSqrtRemBody(x[1])
      [] op = "FAdd" -> FAddBody(x[1], x[2])
      [] op = "FMul" -> FMulBody(x[1], x[2])
      [] op = "FDiv" -> FDivBody(x[1], x[2])
      [] op = "FSqrt" -> FSqrtBody(x[1])
      [] op = "FCmp" -> FCmpBody(x[1], x[2])
      [] op = "FromInt" -> FromIntBody(x[1])
      [] op = "MagFloor" -> MagFloorBody(x[1])
      [] op = "Dec" -> DecBody(x[1], x[2])
      [] op = "FPow" -> FPowBody(x[1], x[2])
      [] op = "CeilInt" -> CeilIntBody(x[1])
      [] op = "JsRound" -> JsRoundBody(x[1])
      [] op = "FSum" -> FSumBody(x[1])
      [] op = "FMin" -> FMinBody(x[1])
      [] op = "FMax" -> FMaxBody(x[1])
      [] op = "Arange" -> ArangeBody(x[1], x[2], x[3])
      [] op = "InterpolateIdwPoint" -> InterpolateIdwPointBody(x[1], x[2], x[3], x[4])
      [] op = "CellValue" -> CellValueBody(x[1], x[2], x[3], x[4])
      [] op = "Pm25ToAqi" -> Pm25ToAqiBody(x[1])
      [] op = "JsAqi" -> JsAqiBody(x[1])
      [] op = "ClickHandler" -> ClickHandlerBody(x[1], x[2], x[3])
      [] op = "FetchLatestPm25" -> FetchLatestPm25(x[1], x[2])
      [] op = "WithAqi" -> WithAqi(x[1])
      [] op = "InterpolateIdw" -> InterpolateIdw(x[1], x[2], x[3])
      [] op = "GridResolution" -> GridResolution(x[1])
      [] op = "ScriptRun" -> ScriptRunBody(x[1], x[2], x[3], x[4], x[5])
      [] op = "CreateMap" -> CreateMapBody(x[1], x[2], x[3], x[4], x[5], x[6])

(***************************************************************************)
(* Inputs.                                                                 *)
(***************************************************************************)
MaxN == 3

MaxTenths == 1600

StationsA ==
    << Sample(FromInt(0), FromInt(0), FromInt(10)),
       Sample(FromInt(1), FromInt(0), FromInt(40)),
       Sample(FromInt(0), FromInt(1), FromInt(60)),
       Sample(FromInt(1), FromInt(1), FromInt(25)),
       Sample(Dec(5, 1), Dec(5, 1), FromInt(30)) >>

StationsB ==
    << Sample(FromInt(0), FromInt(0), Dec(1, 1)),
       Sample(Dec(4, 1), Dec(4, 1), Dec(1, 1)),
       Sample(Dec(8, 1), FromInt(0), Dec(1, 1)),
       Sample(Dec(8, 1), Dec(8, 1), Dec(1, 1)),
       Sample(FromInt(0), Dec(8, 1), Dec(1, 1)) >>

\* three stations close together, the first with a value that is not a number
StationsC ==
    << Sample(FromInt(0), FromInt(0), NaN),
       Sample(Dec(1, 1), FromInt(0), FromInt(10)),
       Sample(FromInt(0), Dec(1, 1), FromInt(40)) >>

Prefix(xs, n) == SubSeq(xs, 1, IF n < Len(xs) THEN n ELSE Len(xs))

DataSets == {Prefix(xs, n) : xs \in {StationsA, StationsB, StationsC}, n \in 0..MaxN}

Powers == {1, 2, 20}

Resolutions == {Dec(5, 1), Dec(4, 1)}

Queries ==
    { [lon |-> FromInt(0), lat |-> FromInt(0)],
      [lon |-> Dec(5, 1), lat |-> Dec(5, 1)],
      [lon |-> Dec(4, 1), lat |-> Dec(4, 1)],
      [lon |-> Dec(9, 1), lat |-> Dec(-1, 1)],
      [lon |-> FromInt(3), lat |-> FromInt(4)] }

\* how far above a concentration the second one lies
Steps == {Dec(5, 2), Dec(1, 1), FromInt(25)}

Pm25Inputs ==
    {Dec(n, 1) : n \in 0..MaxTenths}
        \cup {Dec(120000001, 7), FromInt(1000), NaN, NoneValue, TextValue}

(***************************************************************************)
(* The interpolation calls: one operation on a sample set.                 *)
(***************************************************************************)
Init ==
    /\ data \in DataSets
    /\ power \in Powers
    /\ pc = "start"
    /\ res = Zero(0)
    /\ lonMin = Zero(0) /\ lonMax = Zero(0) /\ latMin = Zero(0) /\ latMax = Zero(0)
    /\ gridLon = <<>> /\ gridLat = <<>> /\ gridValues = <<>>
    /\ gi = 0 /\ gj = 0
    /\ gret = "pending"
    /\ q = [lon |-> Zero(0), lat |-> Zero(0)]
    /\ est = NaN
    /\ popup = NoPopup
    /\ pm25 = NaN /\ aqi = -1 /\ alert = "" /\ jsAqi = -1 /\ jsAlert = ""
    /\ pm25b = NaN /\ aqiB = -1 /\ markerColor = "" /\ cellColor = ""
    /\ m = NoMap /\ notice = "" /\ selected = "" /\ ss = NoSession
    /\ now = 0 /\ shown = NoShown

\* interpolate_idw up to the loop: the gate, the envelope, the meshes
GridStart ==
    /\ pc = "start"
    /\ \E r \in Resolutions :
        /\ res' = r
        /\ IF Len(data) = 0 \/ Len(data) < 3
           THEN /\ gret' = "none"
                /\ pc' = "returned"
                /\ UNCHANGED <<lonMin, lonMax, latMin, latMax, gridLon, gridLat,
                               gridValues>>
           ELSE /\ lonMin' = FSub(FMin(Lons(data)), Margin)
                /\ lonMax' = FAdd(FMax(Lons(data)), Margin)
                /\ latMin' = FSub(FMin(Lats(data)), Margin)
                /\ latMax' = FAdd(FMax(Lats(data)), Margin)
                /\ LET lons == Arange(lonMin', lonMax', r)
                       lats == Arange(latMin', latMax', r)
                   IN  /\ gridLon' = MeshLon(lons, lats)
                       /\ gridLat' = MeshLat(lons, lats)
                       /\ gridValues' = FullLikeNaN(MeshLon(lons, lats))
                /\ gret' = "pending"
                /\ pc' = "grid"
    /\ UNCHANGED <<appVars, data, power, gi, gj, q, est, popup, aqiVars>>

\* one pass of the loop body, at node (gi, gj)
GridCell ==
    /\ pc = "grid"
    /\ gi < Len(gridLat)
    /\ gj < Len(gridLon[1])
    /\ gridValues' = [gridValues EXCEPT ![gi + 1][gj + 1] =
                         CellValue(data, gridLon[gi + 1][gj + 1],
                                   gridLat[gi + 1][gj + 1], power)]
    /\ IF gj + 1 < Len(gridLon[1])
       THEN gj' = gj + 1 /\ gi' = gi
       ELSE gj' = 0 /\ gi' = gi + 1
    /\ UNCHANGED <<appVars, data, power, pc, res, lonMin, lonMax, latMin, latMax, gridLon,
                   gridLat, gret, q, est, popup, aqiVars>>

\* return grid_lon, grid_lat, grid_values
GridReturn ==
    /\ pc = "grid"
    /\ gi >= Len(gridLat) \/ Len(gridLon[1]) = 0
    /\ gret' = "grid"
    /\ pc' = "returned"
    /\ UNCHANGED <<appVars, data, power, res, lonMin, lonMax, latMin, latMax, gridLon,
                   gridLat, gridValues, gi, gj, q, est, popup, aqiVars>>

\* a call of interpolate_idw_point
PointQuery ==
    /\ pc = "start"
    /\ \E pt \in Queries :
        /\ q' = pt
        /\ est' = InterpolateIdwPoint(data, pt.lon, pt.lat, power)
    /\ pc' = "point"
    /\ UNCHANGED <<appVars, data, power, gridVars, popup, aqiVars>>

\* a click on the map: the handler is embedded when the data is not empty
Click ==
    /\ pc = "start"
    /\ Len(data) # 0
    /\ \E pt \in Queries :
        /\ q' = pt
        /\ popup' = ClickHandler(JsonStations(data), pt.lat, pt.lon)
    /\ pc' = "click"
    /\ UNCHANGED <<appVars, data, power, gridVars, est, aqiVars>>

\* the refresh once interpolate_idw has returned: the notice and create_map
MapRefresh ==
    /\ pc = "returned"
    /\ IF Len(data) = 0
       THEN notice' = "error" /\ m' = m
       ELSE /\ notice' = Notice(gret, gridValues)
            /\ m' = CreateMap(gret, gridLon, gridLat, gridValues, WithAqi(data),
                              Bbox("London, UK"))
    /\ pc' = "mapped"
    /\ UNCHANGED <<selected, ss, now, shown, data, power, gridVars, q, est, popup, aqiVars>>

Next == GridStart \/ GridCell \/ GridReturn \/ PointQuery \/ Click \/ MapRefresh

Spec == Init /\ [][Next]_vars

(***************************************************************************)
(* The score of one concentration, on the server and in the handler.       *)
(***************************************************************************)
InitAqi ==
    /\ pm25 \in Pm25Inputs
    /\ pc = "start"
    /\ aqi = -1 /\ alert = "" /\ jsAqi = -1 /\ jsAlert = ""
    /\ pm25b = NaN /\ aqiB = -1 /\ markerColor = "" /\ cellColor = ""
    /\ m = NoMap /\ notice = "" /\ selected = "" /\ ss = NoSession
    /\ now = 0 /\ shown = NoShown
    /\ data = <<>> /\ power = 2
    /\ res = Zero(0)
    /\ lonMin = Zero(0) /\ lonMax = Zero(0) /\ latMin = Zero(0) /\ latMax = Zero(0)
    /\ gridLon = <<>> /\ gridLat = <<>> /\ gridValues = <<>>
    /\ gi = 0 /\ gj = 0
    /\ gret = "pending"
    /\ q = [lon |-> Zero(0), lat |-> Zero(0)]
    /\ est = NaN
    /\ popup = NoPopup

ServerScore ==
    /\ pc = "start"
    /\ aqi' = Pm25ToAqi(pm25)
    /\ alert' = GetAqiAlert(Pm25ToAqi(pm25))
    /\ pc' = "scored"
    /\ UNCHANGED <<appVars, data, power, gridVars, q, est, popup, pm25, jsAqi, jsAlert,
                   pm25b, aqiB, markerColor, cellColor>>

\* the handler's score of a number it computed
ClientScore ==
    /\ pc = "scored"
    /\ pm25.k \in {"num", "nan"}
    /\ jsAqi' = JsAqi(pm25)
    /\ jsAlert' = JsAlert(JsAqi(pm25))
    /\ pc' = "jsScored"
    /\ UNCHANGED <<appVars, data, power, gridVars, q, est, popup, pm25, aqi, alert,
                   pm25b, aqiB, markerColor, cellColor>>

\* pm25_to_aqi of a second concentration, a step above the first
ServerScoreHigher ==
    /\ pc = "scored"
    /\ pm25.k = "num"
    /\ \E d \in Steps : \E b \in {FAdd(pm25, d)} :
        /\ pm25b' = b
        /\ aqiB' = Pm25ToAqi(b)
    /\ pc' = "scoredTwo"
    /\ UNCHANGED <<appVars, data, power, gridVars, q, est, popup, pm25, aqi, alert,
                   jsAqi, jsAlert, markerColor, cellColor>>

\* create_map with its contour overlay: the color of a station marker whose
\* value is pm25, and the color of the band of a grid cell whose value is pm25
MapColors ==
    /\ pc = "scored"
    /\ pm25.k \in {"num", "nan"}
    /\ markerColor' = GetColor(aqi)
    /\ cellColor' = ContourColor(pm25)
    /\ pc' = "colored"
    /\ UNCHANGED <<appVars, data, power, gridVars, q, est, popup, pm25, aqi, alert,
                   jsAqi, jsAlert, pm25b, aqiB>>

NextAqi == ServerScore \/ ClientScore \/ ServerScoreHigher \/ MapColors

SpecAqi == InitAqi /\ [][NextAqi]_vars

(***************************************************************************)
(* The script runs of one session.                                         *)
(***************************************************************************)
\* the first time.time() of the session
Epoch == 1000

\* how much time passes between two runs
Elapses == {100, RefreshInterval + 1}

MaxElapsed == 500

\* the stations the API knows: two in London, two in Delhi
WorldStations ==
    << Sample(Dec(-1, 1), Dec(515, 1), FromInt(8)),
       Sample(Dec(77, 0), Dec(286, 1), FromInt(160)),
       Sample(Dec(1, 1), Dec(516, 1), FromInt(40)),
       Sample(Dec(772, 1), Dec(287, 1), FromInt(90)) >>

\* what the API may answer
ApiOutcomes ==
    {[kind |-> "requestError", results |-> <<>>], [kind |-> "malformed", results |-> <<>>]}
        \cup {[kind |-> "results", results |-> SubSeq(WorldStations, a, b)] :
                 a \in {1, 2}, b \in {0, 1, 2, 4}}

InitApp ==
    /\ selected = "London, UK"
    /\ ss = NoSession
    /\ now = Epoch
    /\ shown = NoShown
    /\ m = NoMap /\ notice = ""
    /\ pc = "load"
    /\ data = <<>> /\ power = 2
    /\ res = Zero(0)
    /\ lonMin = Zero(0) /\ lonMax = Zero(0) /\ latMin = Zero(0) /\ latMax = Zero(0)
    /\ gridLon = <<>> /\ gridLat = <<>> /\ gridValues = <<>>
    /\ gi = 0 /\ gj = 0
    /\ gret = "pending"
    /\ q = [lon |-> Zero(0), lat |-> Zero(0)]
    /\ est = NaN
    /\ popup = NoPopup
    /\ pm25 = NaN /\ aqi = -1 /\ alert = "" /\ jsAqi = -1 /\ jsAlert = ""
    /\ pm25b = NaN /\ aqiB = -1 /\ markerColor = "" /\ cellColor = ""

\* the first run, with the first region of the selectbox selected
PageLoad ==
    /\ pc = "load"
    /\ \E api \in ApiOutcomes :
        \E run \in {ScriptRun(selected, ss, now, api, FALSE)} :
            ss' = run.ss /\ shown' = run.shown
    /\ pc' = "idle"
    /\ UNCHANGED <<selected, now, m, notice, data, power, gridVars, q, est, popup, aqiVars>>

\* the user selects another region: the script runs again
SelectRegion ==
    /\ pc = "idle"
    /\ \E r \in DOMAIN REGIONS \ {selected} : \E api \in ApiOutcomes :
        /\ selected' = r
        /\ \E run \in {ScriptRun(r, ss, now, api, FALSE)} :
              ss' = run.ss /\ shown' = run.shown
    /\ pc' = "idle"
    /\ UNCHANGED <<now, m, notice, data, power, gridVars, q, est, popup, aqiVars>>

\* the user presses "Refresh Now": the script runs with the button pressed,
\* which ends in last_update = 0 and st.rerun()
RefreshNow ==
    /\ pc = "idle"
    /\ \E api \in ApiOutcomes :
        \E run \in {ScriptRun(selected, ss, now, api, TRUE)} :
            ss' = run.ss /\ shown' = run.shown
    /\ pc' = "rerun"
    /\ UNCHANGED <<selected, now, m, notice, data, power, gridVars, q, est, popup, aqiVars>>

\* the run st.rerun() starts
Rerun ==
    /\ pc = "rerun"
    /\ \E api \in ApiOutcomes :
        \E run \in {ScriptRun(selected, ss, now, api, FALSE)} :
            ss' = run.ss /\ shown' = run.shown
    /\ pc' = "idle"
    /\ UNCHANGED <<selected, now, m, notice, data, power, gridVars, q, est, popup, aqiVars>>

\* time passes between two runs
Tick ==
    /\ pc = "idle"
    /\ \E e \in Elapses :
        /\ now + e <= Epoch + MaxElapsed
        /\ now' = now + e
    /\ UNCHANGED <<selected, ss, shown, m, notice, data, power, pc, gridVars, q, est,
                   popup, aqiVars>>

NextApp == PageLoad \/ SelectRegion \/ RefreshNow \/ Rerun \/ Tick

SpecApp == InitApp /\ [][NextApp]_vars

(***************************************************************************)
(* The properties.                                                         *)
(***************************************************************************)
\* the samples of d that lie exactly at (lon, lat)
SamplesAt(d, lon, lat) == {k \in 1..Len(d) : FEq(d[k].lon, lon) /\ FEq(d[k].lat, lat)}

\* the nodes of the value mesh
Cells == {c \in (1..Len(gridValues)) \X (1..Len(gridLon[1])) : TRUE}

\* min(values) <= v <= max(values)
InRange(v, d) == FLe(FMin(Values(d)), v) /\ FLe(v, FMax(Values(d)))

\* interpolate_idw has returned a grid
GridDone == pc = "returned" /\ gret = "grid"

\* C1: with fewer than 3 samples interpolate_idw_point returns NaN and
\* interpolate_idw returns (None, None, None) without entering its loop;
\* neither returns a computed number.
C1_FewSamplesSentinel ==
    Len(data) < 3 =>
        /\ pc = "point" => IsNaN(est)
        /\ pc # "grid"
        /\ pc = "returned" => gret = "none" /\ gridLon = <<>> /\ gridValues = <<>>

\* C1: interpolate_idw_point has answered a set of two samples
C1_TwoSamplesAsked == Len(data) = 2 /\ pc = "point" /\ IsNaN(est)

\* C2: with at least 3 samples the point estimate, and every cell of the
\* value mesh, lies within [min(values), max(values)].
C2_WithinRange ==
    Len(data) >= 3 =>
        /\ pc = "point" => InRange(est, data)
        /\ GridDone => \A c \in Cells : InRange(gridValues[c[1]][c[2]], data)

\* the Category Table: the first entry whose upper bound is >= v
CategoryOf(v) ==
    IF FLe(v, FromInt(12)) THEN "Good"
    ELSE IF FLe(v, Dec(354, 1)) THEN "Moderate"
    ELSE IF FLe(v, Dec(554, 1)) THEN "Unhealthy for Sensitive"
    ELSE "Unhealthy"

\* C3: for every concentration v >= 0 the alert of the score of v is the
\* Category Table's entry for v (a breakpoint belongs to the lower category,
\* any value above it to the next), and above 150.4 the score is 201.
C3_CategoryTable ==
    (pc = "scored" /\ pm25.k = "num" /\ pm25.s = 0) =>
        /\ alert = CategoryOf(pm25)
        /\ FLt(Dec(1504, 1), pm25) => aqi = 201

\* C4: the server's score and the click handler's score of the same
\* concentration are the same integer, and so are the two alerts.
C4_SameScore ==
    pc = "jsScored" => jsAqi = aqi /\ jsAlert = alert

\* C5: for a non-empty sample set and the power 2 of the application, the
\* click handler shows the estimate interpolate_idw_point returns for the
\* clicked point, and "No data" when interpolate_idw_point returns NaN.
C5_ClickMatchesPoint ==
    (pc = "click" /\ power = 2) =>
        LET server == InterpolateIdwPoint(data, q.lon, q.lat, power)
        IN  IF IsNaN(server) THEN popup.content = "No data"
            ELSE popup.content = "AQI" /\ popup.pm25 = server

\* C6: pm25_to_aqi of None, of a non-numeric string and of NaN is 0.
C6_NoDataScoreZero ==
    (pc = "scored" /\ pm25.k \in {"none", "text", "nan"}) => aqi = 0

\* C7: the three meshes have the same shape, and every node lies in the
\* half-open envelope: at or above the lower edge, strictly below the upper.
C7_HalfOpenLattice ==
    (pc \in {"grid", "returned"} /\ gret # "none") =>
        /\ Len(gridLon) = Len(gridLat) /\ Len(gridValues) = Len(gridLat)
        /\ \A i \in 1..Len(gridLat) :
              /\ Len(gridLon[i]) = Len(gridLon[1])
              /\ Len(gridLat[i]) = Len(gridLon[1])
              /\ Len(gridValues[i]) = Len(gridLon[1])
              /\ \A j \in 1..Len(gridLon[1]) :
                    /\ FLe(lonMin, gridLon[i][j]) /\ FLt(gridLon[i][j], lonMax)
                    /\ FLe(latMin, gridLat[i][j]) /\ FLt(gridLat[i][j], latMax)

\* C8: every cell of the value mesh interpolate_idw returns is the value
\* interpolate_idw_point gives at that node for the same samples and power.
C8_CellsArePointEstimates ==
    GridDone =>
        \A c \in Cells :
            gridValues[c[1]][c[2]] =
                InterpolateIdwPoint(data, gridLon[c[1]][c[2]], gridLat[c[1]][c[2]], power)

\* C8: a grid has been returned one of whose nodes lies on a sample
C8_GridWithNodeOnSample ==
    /\ GridDone
    /\ \E c \in Cells :
          /\ SamplesAt(data, gridLon[c[1]][c[2]], gridLat[c[1]][c[2]]) # {}
          /\ IsFinite(gridValues[c[1]][c[2]])

\* the end-to-end scenario: samples (0,0,10), (1,0,40), (0,1,60), power 2,
\* resolution 0.5, the grid returned
Scenario ==
    /\ data = Prefix(StationsA, 3)
    /\ power = 2
    /\ res = Dec(5, 1)
    /\ GridDone

\* the square of the distance from node c to (lon, lat)
NodeDist2(c, lon, lat) ==
    FAdd(FPow(FSub(gridLon[c[1]][c[2]], lon), 2), FPow(FSub(gridLat[c[1]][c[2]], lat), 2))

\* the nodes nearest (lon, lat)
Nearest(lon, lat) ==
    {c \in Cells : \A c2 \in Cells : FLe(NodeDist2(c, lon, lat), NodeDist2(c2, lon, lat))}

\* the alert of a cell
CellAlert(c) == GetAqiAlert(Pm25ToAqi(gridValues[c[1]][c[2]]))

\* the scenario's grid starts at (-0.1, -0.1), lies in the envelope
\* (-0.1, -0.1)..(1.1, 1.1) and holds values within [10, 60]
ScenarioGrid ==
    /\ gridLon[1][1] = Dec(-1, 1) /\ gridLat[1][1] = Dec(-1, 1)
    /\ lonMin = Dec(-1, 1) /\ latMin = Dec(-1, 1)
    /\ lonMax = Dec(11, 1) /\ latMax = Dec(11, 1)
    /\ \A c \in Cells :
          /\ FLe(lonMin, gridLon[c[1]][c[2]]) /\ FLe(gridLon[c[1]][c[2]], lonMax)
          /\ FLe(latMin, gridLat[c[1]][c[2]]) /\ FLe(gridLat[c[1]][c[2]], latMax)
          /\ FLe(FromInt(10), gridValues[c[1]][c[2]])
          /\ FLe(gridValues[c[1]][c[2]], FromInt(60))

\* C9: in the scenario the grid starts at (-0.1, -0.1) within the envelope,
\* every cell is within [10, 60], the cell nearest (0, 0) is good and the
\* cell nearest (1, 0) is unhealthy for sensitive groups.
C9_Scenario ==
    Scenario =>
        /\ ScenarioGrid
        /\ \A c \in Nearest(FromInt(0), FromInt(0)) : CellAlert(c) = "Good"
        /\ \A c \in Nearest(FromInt(1), FromInt(0)) :
              CellAlert(c) = "Unhealthy for Sensitive"

\* C9: the scenario has run
C9_ScenarioRun == Scenario /\ Nearest(FromInt(1), FromInt(0)) # {}

\* C9 as written: the same with the cell nearest (1, 0) classified moderate.
C9_ScenarioAsWritten ==
    Scenario =>
        /\ ScenarioGrid
        /\ \A c \in Nearest(FromInt(0), FromInt(0)) : CellAlert(c) = "Good"
        /\ \A c \in Nearest(FromInt(1), FromInt(0)) : CellAlert(c) = "Moderate"

\* C10: when the query point, or a node, lies exactly on a sample, the
\* result is a finite number and that sample's weight is strictly larger
\* than the weight of every sample at a nonzero distance.
C10_CoincidentIsNormal ==
    /\ (pc = "point" /\ Len(data) >= 3 /\ SamplesAt(data, q.lon, q.lat) # {}) =>
          LET dists == PointDists(data, q.lon, q.lat)
              w     == PointWeights(PointZeroFix(dists), power)
          IN  /\ IsFinite(est)
              /\ \A k \in SamplesAt(data, q.lon, q.lat) :
                    \A j \in 1..Len(data) :
                        ~IsZero(dists[j]) => FLt(w[j], w[k])
    /\ GridDone =>
          \A c \in Cells :
              SamplesAt(data, gridLon[c[1]][c[2]], gridLat[c[1]][c[2]]) # {}
                  => IsFinite(gridValues[c[1]][c[2]])

\* C11: for every concentration v >= 0 the color of the contour band that
\* shades a grid cell of value v is the color get_color gives a station
\* marker whose value is v, that is get_color(pm25_to_aqi(v)).
C11_SameColor ==
    (pc = "colored" /\ pm25.k = "num" /\ pm25.s = 0) => cellColor = markerColor

\* how severe an alert is
AlertRank(a) ==
    CASE a = "Good" -> 1
      [] a = "Moderate" -> 2
      [] a = "Unhealthy for Sensitive" -> 3
      [] a = "Unhealthy" -> 4

\* C13: for concentrations 0 <= a <= b the score of a is at most the score
\* of b and the alert of a is no more severe than the alert of b; above
\* 150.4 the score is 201.
C13_Monotone ==
    (pc = "scoredTwo" /\ pm25.s = 0) =>
        /\ FLe(pm25, pm25b)
        /\ aqi <= aqiB
        /\ AlertRank(alert) <= AlertRank(GetAqiAlert(aqiB))
        /\ FLt(Dec(1504, 1), pm25b) => aqiB = 201

\* every cell of the value mesh is NaN
EveryCellNaN == \A c \in Cells : IsNaN(gridValues[c[1]][c[2]])

\* C12: for a non-empty sample set for which interpolate_idw returned no
\* grid, or a value mesh whose every cell is NaN, the refresh raises nothing
\* and create_map returns a map without overlay that holds exactly one
\* circle marker per sample, at the sample's position, in order.
C12_MarkersOnly ==
    (pc = "mapped" /\ Len(data) # 0 /\ (gret = "none" \/ EveryCellNaN)) =>
        /\ m.kind = "map"
        /\ ~m.overlay.drawn
        /\ notice = "warning"
        /\ Len(m.markers) = Len(data)
        /\ \A i \in 1..Len(data) :
              /\ m.markers[i].kind = "CircleMarker"
              /\ m.markers[i].lat = data[i].lat
              /\ m.markers[i].lon = data[i].lon

\* C12: create_map has drawn the map of a grid that interpolate_idw
\* returned with every cell NaN
C12_AllNaNGridMapped ==
    /\ pc = "mapped" /\ gret = "grid" /\ Len(data) >= 3
    /\ Cells # {} /\ EveryCellNaN
    /\ m.kind = "map" /\ Len(m.markers) = Len(data)

\* the row lies in the bbox
InBbox(row, bbox) ==
    /\ FLe(bbox[1], row.lon) /\ FLe(row.lon, bbox[3])
    /\ FLe(bbox[2], row.lat) /\ FLe(row.lat, bbox[4])

\* C14: at the end of every script run the map displayed, and the map held
\* in the session state, is fitted to the bbox of the selected region, and
\* the station data displayed and held lie in that bbox: nothing of another
\* region is shown under the current selection.
C14_ShownIsSelected ==
    pc = "idle" =>
        /\ shown.region = selected
        /\ shown.map.kind = "map" => shown.map.bounds = FitBounds(Bbox(selected))
        /\ ss.map.kind = "map" => ss.map.bounds = FitBounds(Bbox(selected))
        /\ \A i \in 1..Len(shown.data) : InBbox(shown.data[i], Bbox(selected))
        /\ \A i \in 1..Len(ss.data) : InBbox(ss.data[i], Bbox(selected))

====
